---- MODULE Spec2Model ----
(***************************************************************************)
(* Model of src/app.py, the Streamlit "Fake News NLP Dashboard".           *)
(*                                                                         *)
(* The script is one handler: Streamlit runs it top to bottom for the      *)
(* first render and again each time the row slider is moved.  One run is   *)
(* one action (Render).  State that survives a run: the st.cache_data      *)
(* store of load_data and the slider widget.  Everything else is rebuilt   *)
(* by every run; the variables below hold what the last run left behind.   *)
(*                                                                         *)
(* Numbers: means and proportions are exact rationals [num, den] in        *)
(* lowest terms (pandas computes them in float64).                         *)
(* Timestamps: a cell of the file is a date <<y, m, d>>; pd.to_datetime    *)
(* turns it into a day ordinal (days since 2020-12-01, a Tuesday); the     *)
(* time of day is dropped because to_period("W") ignores it.               *)
(* Strings built by the code (the week labels) are sequences of ASCII      *)
(* codes, compared as Python compares str.                                 *)
(* The free-text column is displayed only and is not modelled.             *)
(* Cells: the code validates nothing it reads, so a cell of the label,     *)
(* sentiment or timestamp column may also be empty, and a label or a       *)
(* sentiment may be a value outside the documented ones.                   *)
(***************************************************************************)
EXTENDS Integers, Sequences, FiniteSets, TLC

VARIABLES file, cache, loadCount, passes, slider, stage, ran, df,
          label_counts, sent_counts, weekly, weekly_rolled, weekly_stacked,
          conf_matrix, pulse, row_num

vars == <<file, cache, loadCount, passes, slider, stage, ran, df,
          label_counts, sent_counts, weekly, weekly_rolled, weekly_stacked,
          conf_matrix, pulse, row_num>>

\* ---- bounds of the model ------------------------------------------------
MaxRows == 2
MaxRenders == 2
MaxWeeks == 5

\* ---- program constants --------------------------------------------------
rolling_window == 4
label_order == <<0, 1>>
label_names == <<"Real", "Fake">>
sent_order == <<"Negative", "Neutral", "Positive">>

\* A missing cell of the sentiment column (pandas NaN).
NaN == "NaN"
\* What a sentiment cell of the file can hold: the three categories, some
\* other text, or nothing.
SentimentCells == {"Negative", "Neutral", "Positive", "Mixed", NaN}
\* All sentiment texts in Python str order (crosstab sorts its columns).
SentimentsSorted == <<"Mixed", "Negative", "Neutral", "Positive">>
\* A missing cell of the numeric label column (float NaN) and a missing
\* timestamp after parsing (NaT).
NaNf == 0 - 1
NaT == 0 - 1
\* An empty timestamp cell of the file.
EmptyCell == <<>>
\* What a label cell can hold: 0, 1, another number, or nothing.
LabelCells == {0, 1, 2, NaNf}
\* 2021-01-01 falls in the week 2020-12-28/2021-01-03, 2021-01-06 in the
\* week 2021-01-04/2021-01-10; the third cell is empty.
TimestampCells == {<<2021, 1, 1>>, <<2021, 1, 6>>, EmptyCell}

Range(s) == {s[i] : i \in DOMAIN s}
Max2(a, b) == IF a >= b THEN a ELSE b

\* ---- exact rationals ----------------------------------------------------
RECURSIVE GCD(_, _)
GCD(a, b) == IF b = 0 THEN a ELSE GCD(b, a % b)

Rat(n, d) == LET g == GCD(n, d) IN [num |-> n \div g, den |-> d \div g]
RatAdd(a, b) == Rat(a.num * b.den + b.num * a.den, a.den * b.den)
RatSub(a, b) == Rat(a.num * b.den - b.num * a.den, a.den * b.den)
RatDivInt(a, k) == Rat(a.num, a.den * k)
Zero == Rat(0, 1)
One == Rat(1, 1)

\* ---- calendar -----------------------------------------------------------
IsLeap(y) == (y % 4 = 0 /\ y % 100 # 0) \/ y % 400 = 0
DaysInMonth(y, m) ==
    IF m = 2 THEN (IF IsLeap(y) THEN 29 ELSE 28)
    ELSE IF m \in {4, 6, 9, 11} THEN 30 ELSE 31

\* Month number k counts months from December 2020 (k = 0).
YearOfMonth(k) == 2020 + ((k + 11) \div 12)
MonthOfMonth(k) == ((k + 11) % 12) + 1

RECURSIVE DaysBeforeMonth(_)
DaysBeforeMonth(k) ==
    IF k = 0 THEN 0
    ELSE DaysBeforeMonth(k - 1) + DaysInMonth(YearOfMonth(k - 1), MonthOfMonth(k - 1))

\* pd.to_datetime on one cell: the date as a day ordinal, NaT for an empty
\* cell.
to_datetime(cell) ==
    IF cell = EmptyCell THEN NaT
    ELSE DaysBeforeMonth((cell[1] - 2020) * 12 + cell[2] - 12) + cell[3] - 1

\* The date <<y, m, d>> of a day ordinal.
CivilOf(n) ==
    LET k == CHOOSE j \in 0..11 : DaysBeforeMonth(j) <= n /\ n < DaysBeforeMonth(j + 1)
    IN <<YearOfMonth(k), MonthOfMonth(k), n - DaysBeforeMonth(k) + 1>>
\* The same, tabulated for the days the model uses (December 2020 to
\* February 2021).
CivilTable == [n \in 0..89 |-> CivilOf(n)]
CivilFromOrdinal(n) == CivilTable[n]

\* Monday = 0 ... Sunday = 6; ordinal 0 is Tuesday 2020-12-01.
Weekday(n) == (n + 1) % 7

\* .dt.to_period("W"): the Monday-to-Sunday week holding the day, named by
\* the ordinal of its Monday.
to_period_W(n) == n - Weekday(n)
\* Period.start_time
start_time(p) == p
\* Period end (the Sunday)
end_time(p) == p + 6

\* ---- strings ------------------------------------------------------------
Digit(k) == 48 + k
Pad2(n) == <<Digit((n \div 10) % 10), Digit(n % 10)>>
Pad4(n) == <<Digit((n \div 1000) % 10), Digit((n \div 100) % 10)>> \o Pad2(n % 100)
DateStr(c) == Pad4(c[1]) \o <<45>> \o Pad2(c[2]) \o <<45>> \o Pad2(c[3])

\* str(Period) for a weekly period: "YYYY-MM-DD/YYYY-MM-DD".
PeriodStrOf(p) ==
    DateStr(CivilFromOrdinal(start_time(p))) \o <<47>> \o DateStr(CivilFromOrdinal(end_time(p)))
\* The same, tabulated for the weeks the model uses.
PeriodStrTable == [p \in 0..83 |-> PeriodStrOf(p)]
PeriodStr(p) == PeriodStrTable[p]
\* str(NaT)
NaTStr == <<78, 97, 84>>
\* dt.to_period("W").astype(str) on one timestamp.
WeekStr(t) == IF t = NaT THEN NaTStr ELSE PeriodStr(to_period_W(t))

\* Python's a < b on str.
StrLess(a, b) ==
    \E i \in 1..Len(b) :
        /\ i <= Len(a) + 1
        /\ \A j \in 1..(i - 1) : a[j] = b[j]
        /\ (i > Len(a) \/ a[i] < b[i])

RECURSIVE SortStrings(_)
SortStrings(S) ==
    IF S = {} THEN <<>>
    ELSE LET m == CHOOSE x \in S : \A y \in S \ {x} : StrLess(x, y)
         IN <<m>> \o SortStrings(S \ {m})

RECURSIVE SortInts(_)
SortInts(S) ==
    IF S = {} THEN <<>>
    ELSE LET m == CHOOSE x \in S : \A y \in S : x <= y
         IN <<m>> \o SortInts(S \ {m})

\* ---- the table read from the file ---------------------------------------
\* A DataFrame: its column names and its rows in file order.  A row is a
\* record with one field per column.
NoData == [columns |-> {}, rows |-> <<>>]
BaseColumns == {"fake_news_label", "sentiment_label"}

Count(rows, P(_)) == Cardinality({i \in DOMAIN rows : P(rows[i])})
Filter(rows, P(_)) == SelectSeq(rows, P)

\* load_data body: read_csv, then the timestamp column, when the file has
\* one, is replaced by its parsed values.
ParseRow(r) ==
    [fake_news_label |-> r.fake_news_label,
     sentiment_label |-> r.sentiment_label,
     tweetcreatedts  |-> to_datetime(r.tweetcreatedts)]

load_data_body(f) ==
    IF "tweetcreatedts" \in f.columns
    THEN [columns |-> f.columns, rows |-> [i \in DOMAIN f.rows |-> ParseRow(f.rows[i])]]
    ELSE [columns |-> f.columns, rows |-> f.rows]

\* @st.cache_data: the body runs only when the store holds no result.
CacheMissAlways(store) == FALSE
CacheHit(store) == store # NoData

\* ---- section 2: distributions -------------------------------------------
\* value_counts() of a column, read at the value v.  NaN is never a key of
\* the result, so v is a label or a sentiment text other than NaN.
value_counts(rows, col, v) == Count(rows, LAMBDA r : r[col] = v)

LabelCounts(d) ==
    [i \in DOMAIN label_order |-> value_counts(d.rows, "fake_news_label", label_order[i])]
SentCounts(d) ==
    [i \in DOMAIN sent_order |-> value_counts(d.rows, "sentiment_label", sent_order[i])]

\* ---- section 3: rolling 4-week average ----------------------------------
WithWeekStr(r) ==
    [fake_news_label |-> r.fake_news_label,
     sentiment_label |-> r.sentiment_label,
     tweetcreatedts  |-> r.tweetcreatedts,
     week            |-> WeekStr(r.tweetcreatedts)]

AddWeekStr(d) ==
    [columns |-> d.columns \cup {"week"},
     rows    |-> [i \in DOMAIN d.rows |-> WithWeekStr(d.rows[i])]]

\* Lines 62-63: the week column is assigned on a copy; df is left alone.
WeeklyRollingFramesNoCopy(d) == [df |-> AddWeekStr(d), df_weekly_rolling |-> AddWeekStr(d)]
WeeklyRollingFrames(d) == [df |-> d, df_weekly_rolling |-> AddWeekStr(d)]

\* groupby("week") on the string column: the group keys, sorted.
GroupKeys(rows) == SortStrings({rows[i].week : i \in DOMAIN rows})

\* A mean with nothing to average (float NaN).
NaNRat == [num |-> 0, den |-> 0]

RECURSIVE SumLabels(_)
SumLabels(g) == IF g = <<>> THEN 0 ELSE g[1].fake_news_label + SumLabels(Tail(g))

\* Series.mean() of the label column: the mean of the cells that are not
\* missing, NaN when all are missing.
MeanLabel(g) ==
    LET have == Filter(g, LAMBDA r : r.fake_news_label # NaNf)
    IN IF have = <<>> THEN NaNRat ELSE Rat(SumLabels(have), Len(have))
\* Series.mean() of a boolean comparison.
MeanEq(g, s) == Rat(Count(g, LAMBDA r : r.sentiment_label = s), Len(g))

agg_pos(g) == MeanEq(g, "Positive")
agg_neg(g) == MeanEq(g, "Negative")
agg_neu_dup(g) == MeanEq(g, "Negative")
agg_neu(g) == MeanEq(g, "Neutral")

WeeklyRow(rows, k) ==
    LET g == Filter(rows, LAMBDA r : r.week = k)
    IN [week |-> k, fake_news_rate |-> MeanLabel(g),
        pos |-> agg_pos(g), neg |-> agg_neg(g), neu |-> agg_neu(g)]

\* Lines 64-69: one row per group, in key order.
WeeklyAgg(frame) ==
    LET keys == GroupKeys(frame.rows)
    IN [i \in DOMAIN keys |-> WeeklyRow(frame.rows, keys[i])]

NumericFields == {"fake_news_rate", "pos", "neg", "neu"}

\* rolling(window, min_periods=1).mean() on one column, as pandas runs it:
\* a running sum and count of the values that are not NaN; moving to
\* position i drops the value that left the window and adds the new one;
\* the result is sum/count, NaN when the count is 0.
WindowStartShort(i, w) == Max2(1, i - w + 2)
WindowStart(i, w) == Max2(1, i - w + 1)

add_mean(st, val) ==
    IF val = NaNRat THEN st ELSE [sum |-> RatAdd(st.sum, val), nobs |-> st.nobs + 1]
remove_mean(st, val) ==
    IF val = NaNRat THEN st ELSE [sum |-> RatSub(st.sum, val), nobs |-> st.nobs - 1]
calc_mean(st) == IF st.nobs >= 1 THEN RatDivInt(st.sum, st.nobs) ELSE NaNRat

RECURSIVE RollState(_, _, _)
RollState(x, i, w) ==
    IF i = 1 THEN add_mean([sum |-> Zero, nobs |-> 0], x[1])
    ELSE LET prev == RollState(x, i - 1, w)
             gone == WindowStart(i - 1, w)..(WindowStart(i, w) - 1)
             drop == IF gone = {} THEN prev
                     ELSE remove_mean(prev, x[WindowStart(i - 1, w)])
         IN add_mean(drop, x[i])

RollingMean(x, w) == [i \in DOMAIN x |-> calc_mean(RollState(x, i, w))]

Column(t, f) == [i \in DOMAIN t |-> t[i][f]]

\* Lines 70-72: the week labels beside the smoothed numeric columns.
WeeklyRolled(t) ==
    LET r == [f \in NumericFields |-> RollingMean(Column(t, f), rolling_window)]
    IN [i \in DOMAIN t |->
          [week |-> t[i].week, fake_news_rate |-> r["fake_news_rate"][i],
           pos |-> r["pos"][i], neg |-> r["neg"][i], neu |-> r["neu"][i]]]

\* ---- section 4: weekly sentiment proportions ----------------------------
WithWeekStart(r) ==
    [fake_news_label |-> r.fake_news_label,
     sentiment_label |-> r.sentiment_label,
     tweetcreatedts  |-> r.tweetcreatedts,
     week            |-> start_time(to_period_W(r.tweetcreatedts))]

AddWeekStart(d) ==
    [columns |-> d.columns \cup {"week"},
     rows    |-> [i \in DOMAIN d.rows |-> WithWeekStart(d.rows[i])]]

\* Line 89 applies r.start_time to every period of the column; for a
\* missing timestamp r is NaT, which has no start_time: AttributeError.
StartTimeRaises(d) == \E i \in DOMAIN d.rows : d.rows[i].tweetcreatedts = NaT

\* Lines 88-89: again a copy carries the week column.
WeeklyStackedFrames(d) == [df |-> d, df_weekly_stacked |-> AddWeekStart(d)]

\* groupby('week')['sentiment_label'].value_counts(normalize=True): NaN
\* sentiments are dropped first, each count is divided by the number of
\* rows of the week that are left; a week with no row left has no entry.
Known(rows) == Filter(rows, LAMBDA r : r.sentiment_label # NaN)

NormalizedCount(g, s) == Rat(Count(g, LAMBDA r : r.sentiment_label = s), Len(g))

StackedRow(rows, k) ==
    LET g == Filter(rows, LAMBDA r : r.week = k)
    IN [week |-> k,
        Negative |-> NormalizedCount(g, "Negative"),
        Neutral  |-> NormalizedCount(g, "Neutral"),
        Positive |-> NormalizedCount(g, "Positive")]

\* Lines 90-95: unstack, fillna(0), the three columns of sent_order (a
\* column that no row carries is added as 0), one row per week in order.
WeeklyStacked(frame) ==
    LET kept == Known(frame.rows)
        keys == SortInts({kept[i].week : i \in DOMAIN kept})
    IN [i \in DOMAIN keys |-> StackedRow(kept, keys[i])]

\* ---- section 5: crosstab ------------------------------------------------
EmptyTable == [index |-> <<>>, columns |-> <<>>, cells |-> <<>>]

CellCount(rows, l, s) ==
    Count(rows, LAMBDA r : r.fake_news_label = l /\ r.sentiment_label = s)

\* pd.crosstab (line 115): rows with a missing label or a missing sentiment
\* are left out; the index holds the labels that occur, the columns the
\* sentiments that occur, both sorted.
crosstab(d) ==
    LET kept == Filter(Known(d.rows), LAMBDA r : r.fake_news_label # NaNf)
        idx  == SortInts({kept[i].fake_news_label : i \in DOMAIN kept})
        cols == SelectSeq(SentimentsSorted,
                          LAMBDA s : \E i \in DOMAIN kept : kept[i].sentiment_label = s)
    IN [index   |-> idx,
        columns |-> cols,
        cells   |-> [i \in DOMAIN idx |->
                       [j \in DOMAIN cols |-> CellCount(kept, idx[i], cols[j])]]]

\* conf_matrix.index = [...] (line 116) raises unless the lengths agree.
IndexFits(t, names) == Len(t.index) = Len(names)
SetIndex(t, names) == [index |-> names, columns |-> t.columns, cells |-> t.cells]

\* reindex(columns=..., fill_value=0) (line 117).
ColumnPos(t, c) == CHOOSE j \in DOMAIN t.columns : t.columns[j] = c
reindex_columns(t, cols) ==
    [index   |-> t.index,
     columns |-> cols,
     cells   |-> [i \in DOMAIN t.index |->
                    [j \in DOMAIN cols |->
                       IF cols[j] \in Range(t.columns)
                       THEN t.cells[i][ColumnPos(t, cols[j])] ELSE 0]]]

\* ---- section 6: sentiment counts ----------------------------------------
\* sent_counts.get(sent, 0) for each sentiment of sent_order.
Pulse(d) ==
    [i \in DOMAIN sent_order |-> value_counts(d.rows, "sentiment_label", sent_order[i])]

\* ---- section 7: row inspector -------------------------------------------
NoSlider == [shown |-> FALSE, min |-> 0, max |-> 0]
SliderMaxLen(d) == Len(d.rows)
SliderMax(d) == Len(d.rows) - 1
\* st.slider("...", 0, len(df)-1, 0)
Slider(d) == [shown |-> TRUE, min |-> 0, max |-> SliderMax(d)]
\* df.iloc[n] raises IndexError outside [-len, len-1].
IlocInBounds(d, n) == n >= 0 - Len(d.rows) /\ n < Len(d.rows)

\* ---- one run of the script ----------------------------------------------
Sections == {"preview", "distribution", "rolling", "stacked", "crosstab", "pulse", "inspect"}

\* Line 17 raised (the file cannot be read): nothing is cached, nothing is
\* drawn.
LoadFailed ==
    /\ cache' = cache
    /\ stage' = "load_error"
    /\ ran' = {}
    /\ df' = NoData
    /\ label_counts' = <<>> /\ sent_counts' = <<>>
    /\ weekly' = <<>> /\ weekly_rolled' = <<>> /\ weekly_stacked' = <<>>
    /\ conf_matrix' = EmptyTable /\ pulse' = <<>>
    /\ slider' = NoSlider /\ row_num' = 0

\* Lines 19-148 on the table d that load_data returned; v is the value the
\* slider widget holds for this run.
Script(d, v) ==
    LET hasTs == "tweetcreatedts" \in d.columns
        f3    == IF hasTs THEN WeeklyRollingFrames(d) ELSE [df |-> d, df_weekly_rolling |-> NoData]
        wk    == IF hasTs THEN WeeklyAgg(f3.df_weekly_rolling) ELSE <<>>
        d4    == f3.df
    IN /\ label_counts' = LabelCounts(d)
       /\ sent_counts' = SentCounts(d)
       /\ weekly' = wk
       /\ weekly_rolled' = (IF hasTs THEN WeeklyRolled(wk) ELSE <<>>)
       /\ IF hasTs /\ StartTimeRaises(d4)
          THEN \* line 89 raised: the run ends here
               /\ df' = d4
               /\ weekly_stacked' = <<>>
               /\ conf_matrix' = EmptyTable
               /\ stage' = "stacked_error"
               /\ ran' = {"preview", "distribution", "rolling"}
               /\ pulse' = <<>>
               /\ slider' = NoSlider /\ row_num' = 0
          ELSE LET f4 == IF hasTs THEN WeeklyStackedFrames(d4)
                         ELSE [df |-> d4, df_weekly_stacked |-> NoData]
                   d5 == f4.df
                   ct == crosstab(d5)
                   weekSections == IF hasTs THEN {"rolling", "stacked"} ELSE {}
               IN /\ df' = d5
                  /\ weekly_stacked' =
                        (IF hasTs THEN WeeklyStacked(f4.df_weekly_stacked) ELSE <<>>)
                  /\ IF ~IndexFits(ct, label_names)
                     THEN \* line 116 raised: the run ends here
                          /\ conf_matrix' = ct
                          /\ stage' = "crosstab_error"
                          /\ ran' = {"preview", "distribution"} \cup weekSections
                          /\ pulse' = <<>>
                          /\ slider' = NoSlider /\ row_num' = 0
                     ELSE /\ conf_matrix' = reindex_columns(SetIndex(ct, label_names), sent_order)
                          /\ pulse' = Pulse(d5)
                          /\ slider' = Slider(d5)
                          /\ row_num' = v
                          /\ IF IlocInBounds(d5, v)
                             THEN /\ stage' = "done"
                                  /\ ran' = {"preview", "distribution", "crosstab", "pulse",
                                             "inspect"} \cup weekSections
                             ELSE \* line 135 raised
                                  /\ stage' = "lookup_error"
                                  /\ ran' = {"preview", "distribution", "crosstab", "pulse"}
                                            \cup weekSections

\* The whole script, line 1 to line 148.  load_data() (line 17) runs its
\* body on a cache miss and stores the result when the body returns.
Render(v) ==
    /\ passes' = passes + 1
    /\ file' = file
    /\ IF CacheHit(cache)
       THEN /\ loadCount' = loadCount
            /\ cache' = cache
            /\ Script(cache, v)
       ELSE /\ loadCount' = loadCount + 1
            /\ IF file.readable
               THEN /\ cache' = load_data_body(file.data)
                    /\ Script(load_data_body(file.data), v)
               ELSE LoadFailed

\* The first run of the session: the slider holds its default, 0.
InitialRender ==
    /\ passes = 0
    /\ Render(0)

\* The user drags the slider drawn by the last run to another value of its
\* range; Streamlit reruns the script.
MoveSlider ==
    /\ passes >= 1
    /\ passes < MaxRenders
    /\ slider.shown
    /\ \E v \in slider.min..slider.max :
          /\ v # row_num
          /\ Render(v)

\* ---- the input file -----------------------------------------------------
SeqsUpTo(S, n) == UNION {[1..k -> S] : k \in 0..n}

\* The records of the files.  AllRows*: any cell in any column.  Rows*:
\* the records of documented cells and the records with one cell that is
\* empty or holds another value.
OddLabel(r) == IF r.fake_news_label \in Range(label_order) THEN 0 ELSE 1
OddSentiment(r) == IF r.sentiment_label \in Range(sent_order) THEN 0 ELSE 1
OddTimestamp(r) == IF r.tweetcreatedts = EmptyCell THEN 1 ELSE 0
AllRowsNoTs == [fake_news_label : LabelCells, sentiment_label : SentimentCells]
AllRowsTs == [fake_news_label : LabelCells, sentiment_label : SentimentCells,
              tweetcreatedts : TimestampCells]
RowsNoTs == {r \in AllRowsNoTs : OddLabel(r) + OddSentiment(r) <= 1}
RowsTs == {r \in AllRowsTs : OddLabel(r) + OddSentiment(r) + OddTimestamp(r) <= 1}

\* The files: one that cannot be read; without and with the timestamp
\* column, the files of up to two records of any cells and the files of up
\* to MaxRows records of at most one odd cell each.
Files ==
    {[readable |-> FALSE, data |-> NoData]}
    \cup {[readable |-> TRUE, data |-> [columns |-> BaseColumns, rows |-> r]] :
             r \in SeqsUpTo(AllRowsNoTs, 2) \cup SeqsUpTo(RowsNoTs, MaxRows)}
    \cup {[readable |-> TRUE,
           data |-> [columns |-> BaseColumns \cup {"tweetcreatedts"}, rows |-> r]] :
             r \in SeqsUpTo(AllRowsTs, 2) \cup SeqsUpTo(RowsTs, MaxRows)}

Fresh ==
    /\ cache = NoData
    /\ loadCount = 0
    /\ passes = 0
    /\ slider = NoSlider
    /\ stage = "idle"
    /\ ran = {}
    /\ df = NoData
    /\ label_counts = <<>> /\ sent_counts = <<>>
    /\ weekly = <<>> /\ weekly_rolled = <<>> /\ weekly_stacked = <<>>
    /\ conf_matrix = EmptyTable /\ pulse = <<>>
    /\ row_num = 0

Init == file \in Files /\ Fresh

Next == InitialRender \/ MoveSlider

Spec == Init /\ [][Next]_vars

\* ---- long files for the smoother ----------------------------------------
\* A file of weeks in order: the weeks of Monday 2020-12-07 and 2020-12-14,
\* none for the week of 2020-12-21, then 2020-12-28, 2021-01-04, ...  Each
\* week holds five records, Monday to Friday: the first p are fake (profile
\* p in 1..5), or none carries a label (profile 0).  Week i has one of the
\* profiles 0, 1, 3, 5 or the profile of its position, so that the rates
\* 1/5, 2/5, 3/5, 4/5, 1 occur in this order.
WeekMonday(i) == 6 + 7 * (i - 1) + (IF i >= 3 THEN 7 ELSE 0)

ProfileRow(i, p, j) ==
    [fake_news_label |-> IF p = 0 THEN NaNf ELSE IF j <= p THEN 1 ELSE 0,
     sentiment_label |-> sent_order[((j + p) % 3) + 1],
     tweetcreatedts  |-> CivilFromOrdinal(WeekMonday(i) + (j - 1))]

ProfileRows(i, p) == [j \in 1..5 |-> ProfileRow(i, p, j)]

ProfilesAt(i) == {0, 1, 3, 5, ((i - 1) % 5) + 1}

RECURSIVE WeeksRows(_, _)
WeeksRows(ps, i) ==
    IF i > Len(ps) THEN <<>> ELSE ProfileRows(i, ps[i]) \o WeeksRows(ps, i + 1)

LongFiles ==
    {[readable |-> TRUE,
      data |-> [columns |-> BaseColumns \cup {"tweetcreatedts"}, rows |-> WeeksRows(ps, 1)]] :
        ps \in {q \in SeqsUpTo(0..5, MaxWeeks) : \A i \in DOMAIN q : q[i] \in ProfilesAt(i)}}

InitSmoother == file \in LongFiles /\ Fresh

NextSmoother == InitialRender

SpecSmoother == InitSmoother /\ [][NextSmoother]_vars

\* ======================== properties =====================================
InThree(s) == s \in Range(sent_order)
RowsOfWeek(d, label) ==
    Filter(d.rows, LAMBDA r : WeekStr(r.tweetcreatedts) = label)
\* The documented input: at least one record, every label 0 or 1, every
\* sentiment one of the three, every timestamp (when the column is there)
\* present.
MeetsContract(d) ==
    /\ Len(d.rows) >= 1
    /\ \A i \in DOMAIN d.rows :
          /\ d.rows[i].fake_news_label \in Range(label_order)
          /\ InThree(d.rows[i].sentiment_label)
          /\ ("tweetcreatedts" \in d.columns => d.rows[i].tweetcreatedts # NaT)
EveryWeekKnown(d) ==
    \A i \in DOMAIN d.rows :
        \E j \in DOMAIN d.rows :
            /\ to_period_W(d.rows[j].tweetcreatedts) = to_period_W(d.rows[i].tweetcreatedts)
            /\ d.rows[j].sentiment_label # NaN
SentimentSum(w) == RatAdd(RatAdd(w.pos, w.neg), w.neu)

RECURSIVE SumRat(_, _, _)
SumRat(x, a, b) == IF a > b THEN Zero ELSE RatAdd(x[a], SumRat(x, a + 1, b))
\* The arithmetic mean of x[a..b]: not a number when one of the values is
\* not.
MeanOver(x, a, b) ==
    IF \E k \in a..b : x[k] = NaNRat THEN NaNRat
    ELSE RatDivInt(SumRat(x, a, b), b - a + 1)
\* The mean of the values of x[a..b] that are not missing, missing when
\* there is none.
Present(x, a, b) == {k \in a..b : x[k] # NaNRat}
RECURSIVE SumPresent(_, _, _)
SumPresent(x, a, b) ==
    IF a > b THEN Zero
    ELSE IF x[a] = NaNRat THEN SumPresent(x, a + 1, b)
    ELSE RatAdd(x[a], SumPresent(x, a + 1, b))
MeanOfPresent(x, a, b) ==
    IF Present(x, a, b) = {} THEN NaNRat
    ELSE RatDivInt(SumPresent(x, a, b), Cardinality(Present(x, a, b)))

RECURSIVE SumSeq(_)
SumSeq(x) == IF x = <<>> THEN 0 ELSE x[1] + SumSeq(Tail(x))
SumCells(t) == SumSeq([i \in DOMAIN t.cells |-> SumSeq(t.cells[i])])

\* C1: over the first render and any number of slider re-renders the body
\* of load_data runs at most once; every later run works on the cached table.
C1_LoadAtMostOnce ==
    /\ loadCount <= 1
    /\ (passes >= 1 => loadCount = 1)
    /\ (passes >= 2 => cache # NoData /\ df.rows = cache.rows)

C1_Witness == passes >= 2 /\ loadCount = 1 /\ stage = "done"

\* C2 as claimed: in every row of the weekly aggregate pos + neg + neu = 1.
C2_SumIsOne ==
    \A i \in DOMAIN weekly : SentimentSum(weekly[i]) = One

\* C2 amended: pos + neg + neu is the share of the week's records whose
\* sentiment is Positive, Negative or Neutral; it is 1 exactly when every
\* record of the week carries one of the three.
C2_SumIsShareOfThree ==
    \A i \in DOMAIN weekly :
        LET g == RowsOfWeek(df, weekly[i].week)
            n3 == Count(g, LAMBDA r : InThree(r.sentiment_label))
        IN /\ Len(g) >= 1
           /\ SentimentSum(weekly[i]) = Rat(n3, Len(g))
           /\ (SentimentSum(weekly[i]) = One <=> n3 = Len(g))

C2_Witness ==
    \E i \in DOMAIN weekly :
        LET g == RowsOfWeek(df, weekly[i].week)
        IN /\ Len(g) >= 2
           /\ \A j \in DOMAIN g : InThree(g[j].sentiment_label)
           /\ \E j, k \in DOMAIN g : g[j].sentiment_label # g[k].sentiment_label
           /\ SentimentSum(weekly[i]) = One

\* C3 as claimed: the smoothed table has the rows of the weekly table; each
\* smoothed field at position i is the arithmetic mean of the field over
\* positions max(first, i-3)..i, and the first row is the first weekly row.
C3_TrailingMean ==
    "rolling" \in ran =>
        /\ Len(weekly_rolled) = Len(weekly)
        /\ \A i \in DOMAIN weekly :
              /\ weekly_rolled[i].week = weekly[i].week
              /\ \A f \in NumericFields :
                    weekly_rolled[i][f] = MeanOver(Column(weekly, f), Max2(1, i - 3), i)
        /\ (Len(weekly) >= 1 => weekly_rolled[1] = weekly[1])

\* C3 amended: the smoothed table has the rows of the weekly table; each
\* smoothed field at position i is the mean of the values of the field at
\* positions max(first, i-3)..i that are not missing (the fake_news_rate of
\* a week whose records all lack a label is missing), and is missing when
\* all of them are; it is the arithmetic mean over those positions when
\* none is missing; the first row is the first weekly row.
C3_TrailingMeanOfPresent ==
    "rolling" \in ran =>
        /\ Len(weekly_rolled) = Len(weekly)
        /\ \A i \in DOMAIN weekly :
              /\ weekly_rolled[i].week = weekly[i].week
              /\ \A f \in NumericFields :
                    LET x == Column(weekly, f)
                        a == Max2(1, i - 3)
                    IN /\ weekly_rolled[i][f] = MeanOfPresent(x, a, i)
                       /\ (Present(x, a, i) = a..i =>
                              weekly_rolled[i][f] = MeanOver(x, a, i))
        /\ \A i \in DOMAIN weekly :
              /\ \A f \in NumericFields \ {"fake_news_rate"} : weekly[i][f] # NaNRat
              /\ (weekly[i].fake_news_rate = NaNRat <=>
                     \A r \in Range(RowsOfWeek(df, weekly[i].week)) : r.fake_news_label = NaNf)
        /\ (Len(weekly) >= 1 => weekly_rolled[1] = weekly[1])

\* The spec's scenario: rates 0.2, 0.4, 0.6, 0.8, 1.0 smooth to 0.2, 0.3, 0.4, 0.5, 0.7.
C3_Witness ==
    /\ "rolling" \in ran
    /\ Column(weekly, "fake_news_rate") = <<Rat(1, 5), Rat(2, 5), Rat(3, 5), Rat(4, 5), Rat(1, 1)>>
    /\ Column(weekly_rolled, "fake_news_rate") =
          <<Rat(1, 5), Rat(3, 10), Rat(2, 5), Rat(1, 2), Rat(7, 10)>>

\* C4: for every file that meets the input contract the crosstab step
\* yields a table of 6 cells whose sum is the number of records.
C4_CellsSumToLen ==
    (stage \notin {"idle", "load_error"} /\ MeetsContract(df)) =>
        /\ "crosstab" \in ran
        /\ Len(conf_matrix.cells) * Len(conf_matrix.columns) = 6
        /\ SumCells(conf_matrix) = Len(df.rows)

\* C5: whatever labels and sentiments occur, the crosstab step completes
\* with the rows Real, Fake and the columns Negative, Neutral, Positive,
\* an absent combination holding 0.  Stated for the files that meet the
\* input contract (at least one record, every label 0 or 1, every sentiment
\* one of the three, no timestamp missing), among them the files whose
\* records are all Real or all Fake.
C5_CrosstabAlwaysTwoByThree ==
    (stage \notin {"idle", "load_error"} /\ MeetsContract(df)) =>
        /\ stage # "crosstab_error"
        /\ conf_matrix.index = label_names
        /\ conf_matrix.columns = sent_order
        /\ \A i \in DOMAIN label_order, j \in DOMAIN sent_order :
              conf_matrix.cells[i][j] = CellCount(df.rows, label_order[i], sent_order[j])

\* C6: the index of the row lookup lies in 0..len-1; the slider offers no
\* other value and the lookup never fails.
C6_LookupInBounds ==
    /\ stage # "lookup_error"
    /\ slider.shown =>
          /\ slider.min >= 0 /\ slider.max <= Len(df.rows) - 1
          /\ row_num >= 0 /\ row_num <= Len(df.rows) - 1

C6_Witness ==
    /\ stage = "done" /\ "inspect" \in ran
    /\ row_num >= 1 /\ row_num = Len(df.rows) - 1

\* C7: without a tweetcreatedts column the load succeeds, no weekly
\* aggregate is computed, every other view is computed and the run reaches
\* its end.  Stated for the files that meet the input contract otherwise
\* (at least one record, every label 0 or 1, every sentiment one of the
\* three).
C7_NoTimestampsStillRenders ==
    (/\ passes >= 1 /\ file.readable
     /\ "tweetcreatedts" \notin file.data.columns
     /\ MeetsContract(file.data)) =>
        /\ stage = "done"
        /\ ran = Sections \ {"rolling", "stacked"}
        /\ weekly = <<>> /\ weekly_rolled = <<>> /\ weekly_stacked = <<>>

\* C8: once loaded, the cached table is what load_data returned and no run
\* changes it: at the end of every run df has the columns, rows and values
\* of the load, and no week column.
C8_DatasetUnchanged ==
    stage \in {"stacked_error", "crosstab_error", "lookup_error", "done"} =>
        /\ cache = load_data_body(file.data)
        /\ df = cache
        /\ "week" \notin df.columns

C8_Witness ==
    /\ passes >= 2 /\ stage = "done"
    /\ "rolling" \in ran /\ "stacked" \in ran
    /\ Len(weekly) >= 1 /\ Len(weekly_stacked) >= 1

\* C9: for every file with timestamps the weekly table holds one row per
\* calendar week that has a record, no other row, in ascending order of
\* week start.
C9_WeeksAscending ==
    "rolling" \in ran =>
        LET dated  == Filter(df.rows, LAMBDA r : r.tweetcreatedts # NaT)
            starts == SortInts({to_period_W(dated[i].tweetcreatedts) : i \in DOMAIN dated})
        IN /\ Len(weekly) = Len(starts)
           /\ \A i \in DOMAIN weekly : weekly[i].week = PeriodStr(starts[i])

\* C10: the rolling view's weekly table and the stacked view's table have
\* the same weeks and, week by week, the same three proportions, also when
\* records carry a missing or another sentiment.  Stated for the files in
\* which every week with a record has a record whose sentiment is not missing.
C10_ViewsAgree ==
    ("stacked" \in ran /\ EveryWeekKnown(df)) =>
        /\ Len(weekly_stacked) = Len(weekly)
        /\ \A i \in DOMAIN weekly_stacked :
              /\ i \in DOMAIN weekly
              /\ weekly[i].week = PeriodStr(weekly_stacked[i].week)
              /\ weekly[i].neg = weekly_stacked[i].Negative
              /\ weekly[i].neu = weekly_stacked[i].Neutral
              /\ weekly[i].pos = weekly_stacked[i].Positive

====
